---- MODULE Spec2Model ----
(***************************************************************************)
(* Model of src/src/clean_csv.py: the cleaning and scoring pipeline for    *)
(* scraped job postings (load_data, transform_data and its six pipe        *)
(* stages, save_data, save_to_google_sheets, main).                        *)
(*                                                                         *)
(* Text.  A string is a sequence of tokens.  Every character the code      *)
(* looks at ( digits . , $ + - K M and the double quote ) is a token of    *)
(* its own; any other token is a chunk of text holding none of those       *)
(* characters.  pd.read_csv reads an empty field as NaN, so the empty      *)
(* sequence stands for an absent value (pd.isna).                          *)
(*                                                                         *)
(* Numbers.  A float is an exact fraction [num, den] in lowest terms.      *)
(***************************************************************************)
EXTENDS Integers, Sequences, FiniteSets

VARIABLES pc, raw, df, failed, ran, file, sheet, value, result

vars == <<pc, raw, df, failed, ran, file, sheet, value, result>>

----------------------------------------------------------------------------
(* Bounds of the model *)

\* most rows of an input table
MaxRows == 2

\* longest string handed to parse_currency in SpecCurrency
MaxLen == 4

----------------------------------------------------------------------------
(* Fractions *)

Abs(n) == IF n < 0 THEN -n ELSE n

RECURSIVE GCD(_, _)
GCD(a, b) == IF b = 0 THEN a ELSE GCD(b, a % b)

Frac(n, d) ==
    LET g == GCD(Abs(n), Abs(d))
        s == IF d < 0 THEN -1 ELSE 1
    IN [num |-> (s * n) \div g, den |-> (s * d) \div g]

Zero == [num |-> 0, den |-> 1]

FInt(n) == [num |-> n, den |-> 1]

FAdd(a, b) == Frac(a.num * b.den + b.num * a.den, a.den * b.den)

FMul(a, b) ==
    LET x == Frac(a.num, b.den)
        y == Frac(b.num, a.den)
    IN [num |-> x.num * y.num, den |-> x.den * y.den]

FDiv(a, b) == FMul(a, Frac(b.den, b.num))

FLess(a, b) == a.num * b.den < b.num * a.den

FLeq(a, b) == a.num * b.den <= b.num * a.den

\* numpy's round: to the nearest integer, a tie to the even one
RoundHalfEven(a) ==
    LET fl == (2 * a.num) \div (2 * a.den)
        twice == 2 * a.num - 2 * fl * a.den
    IN IF twice < a.den THEN fl
       ELSE IF twice > a.den THEN fl + 1
       ELSE IF fl % 2 = 0 THEN fl ELSE fl + 1

RECURSIVE Pow10(_)
Pow10(k) == IF k = 0 THEN 1 ELSE 10 * Pow10(k - 1)

----------------------------------------------------------------------------
(* Strings *)

NaN == << >>

isna(s) == s = NaN

Digit == {"0", "1", "2", "3", "4", "5", "6", "7", "8", "9"}

DigitVal(c) ==
    CASE c = "0" -> 0 [] c = "1" -> 1 [] c = "2" -> 2 [] c = "3" -> 3
      [] c = "4" -> 4 [] c = "5" -> 5 [] c = "6" -> 6 [] c = "7" -> 7
      [] c = "8" -> 8 [] c = "9" -> 9

\* str.replace(c, ''): every occurrence of the character removed
Remove(s, c) == LET keep(t) == t # c IN SelectSeq(s, keep)

\* c in s
Contains(s, c) == \E i \in 1..Len(s) : s[i] = c

\* the subsequence s[a..b], empty when b < a
Slice(s, a, b) == [i \in 1..(IF b < a THEN 0 ELSE b - a + 1) |-> s[a + i - 1]]

RECURSIVE DigitsValue(_)
DigitsValue(s) ==
    IF Len(s) = 0 THEN 0
    ELSE 10 * DigitsValue(Slice(s, 1, Len(s) - 1)) + DigitVal(s[Len(s)])

\* digits with at most one decimal point and at least one digit
IsUnsigned(s) ==
    /\ \A i \in 1..Len(s) : s[i] \in Digit \cup {"."}
    /\ Cardinality({i \in 1..Len(s) : s[i] = "."}) <= 1
    /\ \E i \in 1..Len(s) : s[i] \in Digit

UnsignedValue(s) ==
    LET dots == {i \in 1..Len(s) : s[i] = "."}
        decimals == IF dots = {} THEN 0 ELSE Len(s) - (CHOOSE i \in dots : TRUE)
    IN Frac(DigitsValue(Remove(s, ".")), Pow10(decimals))

\* float(s), and pd.to_numeric(s, errors='coerce') of one string: ok is FALSE
\* for ValueError / NaN.  The sign is the only non-digit the grammar takes
\* here: no chunk of text used in this model spells inf, nan or an exponent.
float(s) ==
    IF Len(s) > 0 /\ s[1] = "-" /\ IsUnsigned(Slice(s, 2, Len(s)))
    THEN [ok |-> TRUE,
          val |-> FMul(FInt(-1), UnsignedValue(Slice(s, 2, Len(s))))]
    ELSE IF IsUnsigned(s) THEN [ok |-> TRUE, val |-> UnsignedValue(s)]
    ELSE [ok |-> FALSE, val |-> Zero]

\* a field pd.read_csv infers as a number rather than text
IsNumericLiteral(s) == float(s).ok

----------------------------------------------------------------------------
(* parse_currency *)

MultiplierK == 1000

MultiplierM == 1000000

parse_currency(v) ==
    IF isna(v) \/ v = <<"$", "0">> THEN Zero
    ELSE LET v1 == Remove(Remove(v, "$"), "+")
             m == IF Contains(v1, "K") THEN MultiplierK
                  ELSE IF Contains(v1, "M") THEN MultiplierM ELSE 1
             v2 == IF Contains(v1, "K") THEN Remove(v1, "K")
                   ELSE IF Contains(v1, "M") THEN Remove(v1, "M") ELSE v1
             f == float(v2)
         IN IF f.ok THEN FMul(f.val, FInt(m)) ELSE Zero

----------------------------------------------------------------------------
(* Constants & Configurations *)

COLUMN_MAP ==
    [c \in {"sr-only 6", "d-inline-block", "d-inline-flex", "text-light 8",
            "air3-link href", "air3-link", "air3-line-clamp", "text-caption 2",
            "text-light 2", "text-light 4", "text-light 6", "text-light 7"} |->
        CASE c = "sr-only 6" -> "rating"
          [] c = "d-inline-block" -> "total_spent_by_client"
          [] c = "d-inline-flex" -> "country"
          [] c = "text-light 8" -> "payment_verified"
          [] c = "air3-link href" -> "job_url_main"
          [] c = "air3-link" -> "job_title"
          [] c = "air3-line-clamp" -> "job_description"
          [] c = "text-caption 2" -> "time_posted"
          [] c = "text-light 2" -> "hourly_rate"
          [] c = "text-light 4" -> "skill_level"
          [] c = "text-light 6" -> "estimated_time"
          [] c = "text-light 7" -> "estimated_budget"]

TAG_COLUMNS ==
    <<"air3-token", "air3-token 2", "air3-token 3", "air3-token 4",
      "air3-token 5", "air3-token 6", "air3-token 7", "air3-token 8">>

TagColumnSet == {TAG_COLUMNS[i] : i \in 1..Len(TAG_COLUMNS)}

\* the weights, as exact fractions
SCORE_WEIGHTS ==
    [total_spent |-> Frac(4, 10),
     proposed_rate |-> Frac(25, 100),
     rating |-> Frac(15, 100),
     skill_level |-> Frac(1, 10),
     time_commitment |-> Frac(1, 10)]

\* the columns main's input must have
RequiredColumns == DOMAIN COLUMN_MAP \cup TagColumnSet

\* the semantic name of a raw column, and back
RawName(name) == CHOOSE c \in DOMAIN COLUMN_MAP : COLUMN_MAP[c] = name

SemanticColumns == {COLUMN_MAP[c] : c \in DOMAIN COLUMN_MAP}

----------------------------------------------------------------------------
(* Input tables: the fields of the scraped file *)

PaymentVerified == <<"Payment verified">>

PaymentUnverified == <<"Payment unverified">>

Rating45 == <<"Rating is ", "4", ".", "5", " out of ", "5", ".">>

Rating50 == <<"5", "0">>

Spent0 == <<"$", "0">>

Spent5K == <<"$", "5", "K", "+">>

Spent900 == <<"$", "9", "0", "0">>

\* a spend scraped without its $: a column of such fields is read as numbers
SpentBare == <<"9", "0", "0">>

Hourly50 == <<"$", "5", "0", ".", "0", "0">>

Hourly25 == <<"$", "2", "5", ".", "0", "0">>

Expert == <<"Expert">>

Intermediate == <<"Intermediate">>

EntryLevel == <<"Entry level">>

Time30Plus == <<"3", "0", "+", " hrs/week">>

TimeLess30 == <<"Less than ", "3", "0", " hrs/week">>

Budget1500 == <<"Est", ".", " Budget: ", "$", "1", ",", "5", "0", "0">>

PlainText == <<"Build a scraper">>

QuotedText == <<"Fix our ", "\"", "legacy", "\"", " app">>

PlainTag == <<"Python">>

QuotedTag == <<"\"", "AI", "\"">>

\* a typical posting
BaseRow ==
    [c \in RequiredColumns |->
        CASE c = "sr-only 6" -> Rating45
          [] c = "d-inline-block" -> Spent5K
          [] c = "d-inline-flex" -> <<"United States">>
          [] c = "text-light 8" -> PaymentVerified
          [] c = "air3-link href" -> <<"/jobs/~", "0", "1">>
          [] c = "air3-link" -> PlainText
          [] c = "air3-line-clamp" -> PlainText
          [] c = "text-caption 2" -> <<"Posted ", "2", " hours ago">>
          [] c = "text-light 2" -> Hourly50
          [] c = "text-light 4" -> Expert
          [] c = "text-light 6" -> Time30Plus
          [] c = "text-light 7" -> Budget1500
          [] c = "air3-token" -> PlainTag
          [] OTHER -> NaN]

With(row, c, v) == [row EXCEPT ![c] = v]

\* the postings an input table is made of: the typical one with a few of
\* its fields varied together
InputRows ==
    {With(With(BaseRow, "text-light 8", p), "d-inline-block", s) :
        p \in {PaymentVerified, PaymentUnverified},
        s \in {Spent0, Spent5K, Spent900}}
    \cup
    {With(With(BaseRow, "sr-only 6", r), "d-inline-block", s) :
        r \in {Rating45, Rating50, NaN}, s \in {Spent5K, Spent900}}
    \cup
    {With(With(BaseRow, "text-light 2", h), "text-light 6", t) :
        h \in {Hourly50, Hourly25, NaN}, t \in {Time30Plus, TimeLess30, NaN}}
    \cup
    {With(BaseRow, "text-light 4", k) : k \in {Intermediate, EntryLevel}}
    \cup
    {With(BaseRow, "text-light 7", NaN), With(BaseRow, "air3-line-clamp", QuotedText),
     With(BaseRow, "air3-token", NaN), With(BaseRow, "d-inline-block", SpentBare),
     With(With(BaseRow, "air3-token", NaN), "air3-token 3", QuotedTag)}

RECURSIVE SeqsUpTo(_, _)
SeqsUpTo(S, n) ==
    IF n = 0 THEN {<< >>}
    ELSE LET shorter == SeqsUpTo(S, n - 1)
         IN shorter \cup {Append(q, x) : q \in shorter, x \in S}

\* the file either has every required column or lacks one of them
InputColumns == {RequiredColumns, RequiredColumns \ {"text-light 8"}}

----------------------------------------------------------------------------
(* Tables.  A DataFrame is [dtypes, rows]: the dtype of each column, and   *)
(* the rows in order, each [idx, cells] with idx the pandas index label.   *)
(* A stage yields the set of its possible outcomes: Ok(d), or Raise(d)     *)
(* when it raises (d is then the table it was given).                      *)

Ok(d) == [ok |-> TRUE, df |-> d]

Raise(d) == [ok |-> FALSE, df |-> d]

NoTable == [dtypes |-> << >>, rows |-> << >>]

Columns(d) == DOMAIN d.dtypes

Rows(d) == {d.rows[i] : i \in 1..Len(d.rows)}

\* the dtype pd.read_csv gives a column: text makes it object, numbers and
\* absent fields alone make it numeric, and a table without rows is all object
infer_dtype(rows, c) ==
    IF Len(rows) = 0 THEN "object"
    ELSE IF \A i \in 1..Len(rows) : isna(rows[i][c]) \/ IsNumericLiteral(rows[i][c])
         THEN "float64"
         ELSE "object"

read_csv(input) ==
    [dtypes |-> [c \in input.columns |-> infer_dtype(input.rows, c)],
     rows |-> [i \in 1..Len(input.rows) |->
                 [idx |-> i,
                  cells |-> [c \in input.columns |-> input.rows[i][c]]]]]

\* a projection that fills an absent column with NaN instead of raising
select_and_rename_lenient(d) ==
    LET src(n) == IF n \in TagColumnSet THEN n ELSE RawName(n)
        names == SemanticColumns \cup TagColumnSet
    IN {Ok([dtypes |-> [n \in names |->
                IF src(n) \in Columns(d) THEN d.dtypes[src(n)] ELSE "float64"],
            rows |-> [i \in 1..Len(d.rows) |->
                [idx |-> d.rows[i].idx,
                 cells |-> [n \in names |->
                    IF src(n) \in Columns(d) THEN d.rows[i].cells[src(n)]
                    ELSE NaN]]]])}

select_and_rename_columns(d) ==
    IF ~(RequiredColumns \subseteq Columns(d)) THEN {Raise(d)}
    ELSE LET src(n) == IF n \in TagColumnSet THEN n ELSE RawName(n)
             names == SemanticColumns \cup TagColumnSet
         IN {Ok([dtypes |-> [n \in names |-> d.dtypes[src(n)]],
                 rows |-> [i \in 1..Len(d.rows) |->
                    [idx |-> d.rows[i].idx,
                     cells |-> [n \in names |-> d.rows[i].cells[src(n)]]]]])}

\* x.dropna().tolist() over the tag columns of one row
tag_list(cells) ==
    LET present(c) == ~isna(cells[c])
        kept == SelectSeq(TAG_COLUMNS, present)
    IN [i \in 1..Len(kept) |-> cells[kept[i]]]

process_tags(d) ==
    LET names == (Columns(d) \ TagColumnSet) \cup {"tags"}
    IN {Ok([dtypes |-> [n \in names |->
                IF n # "tags" THEN d.dtypes[n]
                ELSE IF Len(d.rows) = 0 THEN "float64" ELSE "object"],
            rows |-> [i \in 1..Len(d.rows) |->
                [idx |-> d.rows[i].idx,
                 cells |-> [n \in names |->
                    IF n # "tags" THEN d.rows[i].cells[n]
                    ELSE [na |-> FALSE, items |-> tag_list(d.rows[i].cells)]]]]])}

----------------------------------------------------------------------------
(* convert_numerics *)

\* the longest run of tokens of S in s that starts at position i
RECURSIVE RunEnd(_, _, _)
RunEnd(s, i, S) == IF i <= Len(s) /\ s[i] \in S THEN RunEnd(s, i + 1, S) ELSE i - 1

\* str.extract(r'(\d+\.?\d*)'): the first number in s, NaN when there is none
extract_number(s) ==
    LET starts == {i \in 1..Len(s) : s[i] \in Digit}
    IN IF starts = {} THEN NaN
       ELSE LET a == CHOOSE i \in starts : \A j \in starts : i <= j
                b == RunEnd(s, a, Digit)
                c == IF b < Len(s) /\ s[b + 1] = "." THEN RunEnd(s, b + 2, Digit) ELSE b
            IN Slice(s, a, c)

\* str.extract(r'\$([\d,]+)'): the digits and commas after the first $ that
\* has some, NaN when there is none
extract_budget(s) ==
    LET starts == {i \in 1..(Len(s) - 1) : s[i] = "$" /\ s[i + 1] \in Digit \cup {","}}
    IN IF starts = {} THEN NaN
       ELSE LET a == CHOOSE i \in starts : \A j \in starts : i <= j
            IN Slice(s, a + 1, RunEnd(s, a + 1, Digit \cup {","}))

\* pd.to_numeric(errors='coerce').fillna(0) of one field
to_numeric_or_0(s) == IF float(s).ok THEN float(s).val ELSE Zero

convert_rating(s) == to_numeric_or_0(extract_number(s))

convert_budget(s) == to_numeric_or_0(Remove(extract_budget(s), ","))

\* str.replace(r'[^\d.]', '', regex=True).replace('', '0')
convert_hourly(s) ==
    LET keep(t) == t \in Digit \cup {"."}
        t1 == SelectSeq(s, keep)
        t2 == IF ~isna(s) /\ t1 = << >> THEN <<"0">> ELSE t1
    IN to_numeric_or_0(t2)

\* the .str accessor raises AttributeError on a column that is not text, and
\* parse_currency calls value.replace on a number that is not NaN
convert_raises(d) ==
    \/ d.dtypes["rating"] # "object"
    \/ /\ d.dtypes["total_spent_by_client"] # "object"
       /\ \E r \in Rows(d) : ~isna(r.cells["total_spent_by_client"])
    \/ d.dtypes["estimated_budget"] # "object"
    \/ d.dtypes["hourly_rate"] # "object"

NumericColumns == {"rating", "total_spent_by_client", "estimated_budget", "hourly_rate"}

convert_numerics(d) ==
    IF convert_raises(d) THEN {Raise(d)}
    ELSE {Ok([dtypes |-> [n \in Columns(d) |->
                 IF n \in NumericColumns THEN "float64" ELSE d.dtypes[n]],
              rows |-> [i \in 1..Len(d.rows) |->
                 [idx |-> d.rows[i].idx,
                  cells |-> [n \in Columns(d) |->
                     LET v == d.rows[i].cells[n]
                     IN CASE n = "rating" -> convert_rating(v)
                          [] n = "total_spent_by_client" -> parse_currency(v)
                          [] n = "estimated_budget" -> convert_budget(v)
                          [] n = "hourly_rate" -> convert_hourly(v)
                          [] OTHER -> v]]]])}

----------------------------------------------------------------------------
(* filter_valid_rows *)

valid_row_any_spend(r) == r.cells["payment_verified"] = PaymentVerified

valid_row(r) ==
    /\ r.cells["payment_verified"] = PaymentVerified
    /\ FLess(Zero, r.cells["total_spent_by_client"])

filter_valid_rows(d) == {Ok([d EXCEPT !.rows = SelectSeq(d.rows, valid_row)])}

----------------------------------------------------------------------------
(* calculate_scores *)

\* str.contains('30+'): the pattern is a regular expression, a 3 followed by
\* one or more 0
contains_30plus(s) == \E i \in 1..(Len(s) - 1) : s[i] = "3" /\ s[i + 1] = "0"

time_multiplier(s) == (IF contains_30plus(s) THEN 30 ELSE 15) * 4

skill_scores(s) == IF s = Expert THEN 3 ELSE IF s = Intermediate THEN 2 ELSE 1

time_scores(s) == (IF contains_30plus(s) THEN 1 ELSE 0) + 1

\* Series.max(); only taken of a table that has rows
column_max(d, n) ==
    LET vals == {r.cells[n] : r \in Rows(d)}
    IN CHOOSE m \in vals : \A v \in vals : FLeq(v, m)

\* one row of norms: a component that is NaN (0 / 0) is skipped by sum()
norms(d, r) ==
    LET max_total == column_max(d, "total_spent_by_client")
        max_rate == FMul(column_max(d, "hourly_rate"), FInt(120))
        rate == FMul(r.cells["hourly_rate"],
                     FInt(time_multiplier(r.cells["estimated_time"])))
    IN [total_spent |->
            IF max_total.num = 0 THEN Zero
            ELSE FDiv(r.cells["total_spent_by_client"], max_total),
        proposed_rate |-> IF max_rate.num = 0 THEN Zero ELSE FDiv(rate, max_rate),
        rating |-> FDiv(r.cells["rating"], FInt(5)),
        skill_level |-> Frac(skill_scores(r.cells["skill_level"]), 3),
        time_commitment |-> Frac(time_scores(r.cells["estimated_time"]), 2)]

weighted_sum(n) ==
    FAdd(FMul(n.total_spent, SCORE_WEIGHTS.total_spent),
    FAdd(FMul(n.proposed_rate, SCORE_WEIGHTS.proposed_rate),
    FAdd(FMul(n.rating, SCORE_WEIGHTS.rating),
    FAdd(FMul(n.skill_level, SCORE_WEIGHTS.skill_level),
         FMul(n.time_commitment, SCORE_WEIGHTS.time_commitment)))))

\* the legacy rule: a record without a rating scores 0
golden_score_zero_unrated(d, r) ==
    IF r.cells["rating"] = Zero THEN 0
    ELSE RoundHalfEven(FMul(weighted_sum(norms(d, r)), FInt(100)))

\* sum(axis=1).round(2) * 100
golden_score(d, r) == RoundHalfEven(FMul(weighted_sum(norms(d, r)), FInt(100)))

\* .str on a column that is not text raises AttributeError (line 145), and
\* astype(int) raises on the NaN str.contains gives an absent field (line 151)
scores_raise(d) ==
    \/ d.dtypes["estimated_time"] # "object"
    \/ \E r \in Rows(d) : isna(r.cells["estimated_time"])

Permutations(n) == {p \in [1..n -> 1..n] : \A i, j \in 1..n : p[i] = p[j] => i = j}

\* sort_values('golden_score', ascending=False) with the default
\* kind='quicksort', which is not stable: every descending order may come out
sort_values(rows) ==
    {[i \in 1..Len(rows) |-> rows[p[i]]] : p \in
        {q \in Permutations(Len(rows)) : \A i \in 1..(Len(rows) - 1) :
            rows[q[i]].cells["golden_score"] >= rows[q[i + 1]].cells["golden_score"]}}

calculate_scores(d) ==
    IF scores_raise(d) THEN {Raise(d)}
    ELSE LET names == Columns(d) \cup {"golden_score"}
             scored == [i \in 1..Len(d.rows) |->
                [idx |-> d.rows[i].idx,
                 cells |-> [n \in names |->
                    IF n = "golden_score" THEN golden_score(d, d.rows[i])
                    ELSE d.rows[i].cells[n]]]]
         IN {Ok([dtypes |-> [n \in names |->
                    IF n = "golden_score" THEN "float64" ELSE d.dtypes[n]],
                 rows |-> sorted]) : sorted \in sort_values(scored)}

----------------------------------------------------------------------------
(* clean_strings *)

\* str.replace('"', '""', regex=False)
RECURSIVE escape(_)
escape(s) ==
    IF Len(s) = 0 THEN << >>
    ELSE (IF Head(s) = "\"" THEN <<"\"", "\"">> ELSE <<Head(s)>>) \o escape(Tail(s))

NaNList == [na |-> TRUE, items |-> << >>]

\* .str.replace on every object column: a field that is a list, not a string,
\* comes back NaN; a table without rows is returned as it is
clean_strings(d) ==
    {Ok([d EXCEPT !.rows = [i \in 1..Len(d.rows) |->
            [idx |-> d.rows[i].idx,
             cells |-> [n \in Columns(d) |->
                IF d.dtypes[n] # "object" THEN d.rows[i].cells[n]
                ELSE IF n = "tags" THEN NaNList
                ELSE escape(d.rows[i].cells[n])]]]])}

----------------------------------------------------------------------------
(* main *)

\* the pipe of transform_data, in order
transform_data ==
    <<"select_and_rename_columns", "process_tags", "convert_numerics",
      "filter_valid_rows", "calculate_scores", "clean_strings">>

main_publish_first ==
    <<"load_data">> \o transform_data \o <<"save_to_google_sheets", "save_data", "done">>

\* the steps of main, in order
main == <<"load_data">> \o transform_data \o <<"save_data", "save_to_google_sheets", "done">>

next_step(name) == main[(CHOOSE i \in 1..Len(main) : main[i] = name) + 1]

Unwritten == [status |-> "absent", rows |-> << >>]

Untouched == [state |-> "untouched", outcome |-> "none", rows |-> << >>]

\* df.to_csv(index=False): the rows without the index
to_csv(d) == [status |-> "complete", rows |-> [i \in 1..Len(d.rows) |-> d.rows[i].cells]]

Init ==
    /\ raw \in [columns : InputColumns, rows : SeqsUpTo(InputRows, MaxRows)]
    /\ pc = "load_data"
    /\ df = NoTable
    /\ failed = "none"
    /\ ran = {}
    /\ file = Unwritten
    /\ sheet = Untouched
    /\ value = NaN
    /\ result = Zero

LoadData ==
    /\ pc = "load_data"
    /\ ran' = ran \cup {"load_data"}
    /\ df' = read_csv(raw)
    /\ pc' = next_step("load_data")
    /\ UNCHANGED <<raw, failed, file, sheet, value, result>>

\* FileNotFoundError, EmptyDataError, ParserError: exit(), and any other
\* exception leaves main too
LoadDataFails ==
    /\ pc = "load_data"
    /\ ran' = ran \cup {"load_data"}
    /\ pc' = "aborted"
    /\ failed' = "load_data"
    /\ UNCHANGED <<raw, df, file, sheet, value, result>>

\* one stage of the pipe: its table goes to the next stage, or it raises and
\* the exception leaves transform_data and main
Stage(name, outcomes) ==
    /\ pc = name
    /\ ran' = ran \cup {name}
    /\ \E o \in outcomes :
          IF o.ok
          THEN df' = o.df /\ pc' = next_step(name) /\ UNCHANGED failed
          ELSE pc' = "aborted" /\ failed' = name /\ UNCHANGED df
    /\ UNCHANGED <<raw, file, sheet, value, result>>

SelectAndRenameColumns ==
    Stage("select_and_rename_columns", select_and_rename_columns(df))

ProcessTags == Stage("process_tags", process_tags(df))

ConvertNumerics == Stage("convert_numerics", convert_numerics(df))

FilterValidRows == Stage("filter_valid_rows", filter_valid_rows(df))

CalculateScores == Stage("calculate_scores", calculate_scores(df))

CleanStrings == Stage("clean_strings", clean_strings(df))

SaveData ==
    /\ pc = "save_data"
    /\ ran' = ran \cup {"save_data"}
    /\ file' = to_csv(df)
    /\ pc' = next_step("save_data")
    /\ UNCHANGED <<raw, df, failed, sheet, value, result>>

\* to_csv raises (the path cannot be opened, the disk fills up): nothing or
\* only a part is written
SaveDataFails ==
    /\ pc = "save_data"
    /\ ran' = ran \cup {"save_data"}
    /\ file' \in {file, [status |-> "partial", rows |-> << >>]}
    /\ pc' = "aborted"
    /\ failed' = "save_data"
    /\ UNCHANGED <<raw, df, sheet, value, result>>

\* the upload goes through: worksheet.clear(), then worksheet.update()
PublishSuccess ==
    /\ pc = "save_to_google_sheets"
    /\ ran' = ran \cup {"save_to_google_sheets"}
    /\ sheet' = [state |-> "updated", outcome |-> "success",
                 rows |-> [i \in 1..Len(df.rows) |-> df.rows[i].cells]]
    /\ pc' = next_step("save_to_google_sheets")
    /\ UNCHANGED <<raw, df, failed, file, value, result>>

\* an exception inside the try block is caught and printed; it comes before
\* worksheet.clear() or after it
PublishError(kind) ==
    /\ pc = "save_to_google_sheets"
    /\ ran' = ran \cup {"save_to_google_sheets"}
    /\ \E st \in {"untouched", "cleared"} :
          sheet' = [state |-> st, outcome |-> kind, rows |-> << >>]
    /\ pc' = next_step("save_to_google_sheets")
    /\ UNCHANGED <<raw, df, failed, file, value, result>>

PublishApiError == PublishError("api_error")

PublishGeneralError == PublishError("general_error")

\* the APIError handler itself raises (the response holds no JSON error
\* message): that exception is not caught and leaves main
PublishHandlerRaises ==
    /\ pc = "save_to_google_sheets"
    /\ ran' = ran \cup {"save_to_google_sheets"}
    /\ \E st \in {"untouched", "cleared"} :
          sheet' = [state |-> st, outcome |-> "api_error", rows |-> << >>]
    /\ pc' = "aborted"
    /\ failed' = "save_to_google_sheets"
    /\ UNCHANGED <<raw, df, file, value, result>>

Next ==
    \/ LoadData
    \/ LoadDataFails
    \/ SelectAndRenameColumns
    \/ ProcessTags
    \/ ConvertNumerics
    \/ FilterValidRows
    \/ CalculateScores
    \/ CleanStrings
    \/ SaveData
    \/ SaveDataFails
    \/ PublishSuccess
    \/ PublishApiError
    \/ PublishGeneralError
    \/ PublishHandlerRaises

Spec == Init /\ [][Next]_vars

----------------------------------------------------------------------------
(* parse_currency on its own: every short string over the characters it    *)
(* looks at, x standing for any other text                                 *)

CurrencyAlphabet == {"$", "+", "K", "M", "5", "0", ".", "-", "x"}

InitCurrency ==
    /\ value \in SeqsUpTo(CurrencyAlphabet, MaxLen)
    /\ pc = "parse_currency"
    /\ raw = [columns |-> RequiredColumns, rows |-> << >>]
    /\ df = NoTable
    /\ failed = "none"
    /\ ran = {}
    /\ file = Unwritten
    /\ sheet = Untouched
    /\ result = Zero

ParseCurrency ==
    /\ pc = "parse_currency"
    /\ result' = parse_currency(value)
    /\ pc' = "parsed"
    /\ UNCHANGED <<raw, df, failed, ran, file, sheet, value>>

NextCurrency == ParseCurrency

SpecCurrency == InitCurrency /\ [][NextCurrency]_vars

----------------------------------------------------------------------------
(* Properties *)

TransformStages == {transform_data[i] : i \in 1..Len(transform_data)}

\* transform_data has returned its table
Transformed == pc \in {"save_data", "save_to_google_sheets", "done"}

\* calculate_scores has attached golden_score
Scored == "golden_score" \in Columns(df)

\* the rows of the input the filter predicate keeps
ValidInput ==
    {i \in 1..Len(raw.rows) :
        /\ raw.rows[i]["text-light 8"] = PaymentVerified
        /\ FLess(Zero, parse_currency(raw.rows[i]["d-inline-block"]))}

\* C1: the rows of transform_data's result are exactly the input rows with
\* payment_verified = "Payment verified" and normalized total_spent_by_client
\* > 0: each of them once, none of the others, and they still satisfy the
\* predicate after scoring and sanitizing.
FilterKeepsExactlyValidRows ==
    Transformed =>
        /\ {r.idx : r \in Rows(df)} = ValidInput
        /\ Len(df.rows) = Cardinality(ValidInput)
        /\ \A r \in Rows(df) :
              /\ r.cells["payment_verified"] = PaymentVerified
              /\ FLess(Zero, r.cells["total_spent_by_client"])

\* a table of which the filter kept a row and dropped a row
FilterKeptAndDropped ==
    Transformed /\ Len(df.rows) > 0 /\ Len(df.rows) < Len(raw.rows)

\* C2: every surviving row's golden_score lies in [0, 100], whatever the raw
\* strings of the rows.
GoldenScoreInRange ==
    Scored => \A r \in Rows(df) :
        r.cells["golden_score"] >= 0 /\ r.cells["golden_score"] <= 100

\* C3, as claimed: a surviving record whose normalized rating is 0 is assigned
\* golden_score 0.
UnratedScoresZero ==
    Scored => \A r \in Rows(df) :
        r.cells["rating"] = Zero => r.cells["golden_score"] = 0

\* the weighted sum of the four components other than the rating, in percent
RestOfScore(d, r) ==
    LET n == norms(d, r)
    IN RoundHalfEven(FMul(FInt(100),
         FAdd(FMul(Frac(4, 10), n.total_spent),
         FAdd(FMul(Frac(25, 100), n.proposed_rate),
         FAdd(FMul(Frac(1, 10), n.skill_level),
              FMul(Frac(1, 10), n.time_commitment))))))

\* C3, amended: a surviving record whose normalized rating is 0 is not forced
\* to 0: its golden_score is the rounded weighted sum of the four other
\* components (the rating contributes 0), which is at least 8.
UnratedScoreIsRestOfSum ==
    Scored => \A r \in Rows(df) :
        r.cells["rating"] = Zero =>
            /\ r.cells["golden_score"] = RestOfScore(df, r)
            /\ r.cells["golden_score"] >= 8

\* a scored table with a record that has no rating
UnratedRowScored ==
    Scored /\ \E r \in Rows(df) : r.cells["rating"] = Zero

\* C4: the output of calculate_scores is the stable descending sort by
\* golden_score: adjacent rows descend, and rows with equal golden_score keep
\* their input order.
StableDescendingSort ==
    Scored =>
        /\ \A i \in 1..(Len(df.rows) - 1) :
              df.rows[i].cells["golden_score"] >= df.rows[i + 1].cells["golden_score"]
        /\ \A i, j \in 1..Len(df.rows) :
              /\ i < j
              /\ df.rows[i].cells["golden_score"] = df.rows[j].cells["golden_score"]
              => df.rows[i].idx < df.rows[j].idx

\* C5: convert_numerics never raises for a table that has the required
\* columns.
ConvertNumericsNeverRaises == failed # "convert_numerics"

\* the publish step has been reached
PublishReached ==
    \/ pc = "save_to_google_sheets"
    \/ "save_to_google_sheets" \in ran
    \/ sheet # Untouched

\* C6: when the publish step is reached the complete primary file has been
\* written by save_data, and every publish outcome leaves it as written.
PrimaryFileWrittenAndKept ==
    PublishReached => "save_data" \in ran /\ file = to_csv(df)

\* a run whose publish failed with an API error after the file was written
PublishFailedFileKept ==
    /\ pc = "done"
    /\ sheet.outcome = "api_error"
    /\ file.status = "complete"
    /\ Len(file.rows) > 0

\* C7: save_data and the publish step are reached only after load_data and
\* every stage of transform_data completed; a failure of load_data or of a
\* stage aborts the run with nothing written and nothing published; and a
\* missing column aborts in the projection, before any later stage runs.
EmissionAllOrNothing ==
    /\ (file # Unwritten \/ "save_data" \in ran \/ PublishReached) =>
          /\ TransformStages \cup {"load_data"} \subseteq ran
          /\ failed \notin TransformStages \cup {"load_data"}
    /\ failed \in TransformStages \cup {"load_data"} =>
          /\ pc = "aborted"
          /\ file = Unwritten
          /\ sheet = Untouched
          /\ ran \cap {"save_data", "save_to_google_sheets"} = {}
    /\ (~(RequiredColumns \subseteq raw.columns)
          /\ "select_and_rename_columns" \in ran) =>
          /\ failed = "select_and_rename_columns"
          /\ ran = {"load_data", "select_and_rename_columns"}

\* a run aborted in the projection because a column is missing
MissingColumnAborted ==
    /\ pc = "aborted"
    /\ failed = "select_and_rename_columns"
    /\ Len(raw.rows) > 0
    /\ file = Unwritten

\* $<number>[K|M][+]
CurrencyShapes ==
    {<<"$">> \o n \o k \o p :
        n \in {q \in SeqsUpTo(CurrencyAlphabet, MaxLen) : IsUnsigned(q)},
        k \in {<< >>, <<"K">>, <<"M">>},
        p \in {<< >>, <<"+">>}}

\* what the claim gives a string of that shape
ShapeValue(v) ==
    LET body == Remove(v, "+")
        last == body[Len(body)]
        m == IF last = "K" THEN 1000 ELSE IF last = "M" THEN 1000000 ELSE 1
        n == Slice(body, 2, IF last \in {"K", "M"} THEN Len(body) - 1 ELSE Len(body))
    IN FMul(UnsignedValue(n), FInt(m))

\* what is left of a string once $, +, K and M are taken out
Remainder(v) == Remove(Remove(Remove(Remove(v, "$"), "+"), "K"), "M")

\* the values the claim C8 gives: number times multiplier for a string of
\* the shape, 0 for "$0", for an absent value and for a remainder that is no
\* number
ParseCurrencyValues ==
    pc = "parsed" =>
        /\ value \in CurrencyShapes => result = ShapeValue(value)
        /\ value \in {NaN, <<"$", "0">>} => result = Zero
        /\ ~float(Remainder(value)).ok => result = Zero

\* C8: parse_currency maps $<number>[K|M][+] to number times 1, 1,000 or
\* 1,000,000, maps "$0", an absent value and an unparsable remainder to 0,
\* and never gives a negative result.
ParseCurrencyContract ==
    /\ ParseCurrencyValues
    /\ pc = "parsed" => result.num >= 0

\* the text columns of the result
TextColumns == SemanticColumns \ NumericColumns

\* the fields of the text columns are their pre-sanitizer text with every
\* double quote doubled, and the numeric fields are unchanged
TextFieldsEscaped ==
    pc \in {"save_data", "save_to_google_sheets", "done"} =>
        \A r \in Rows(df) :
            /\ \A n \in TextColumns :
                  r.cells[n] = escape(raw.rows[r.idx][RawName(n)])
            /\ r.cells["rating"] = convert_rating(raw.rows[r.idx]["sr-only 6"])
            /\ r.cells["hourly_rate"] = convert_hourly(raw.rows[r.idx]["text-light 2"])
            /\ r.cells["estimated_budget"] =
                  convert_budget(raw.rows[r.idx]["text-light 7"])
            /\ r.cells["total_spent_by_client"] =
                  parse_currency(raw.rows[r.idx]["d-inline-block"])

\* C9: after clean_strings every textual field, each entry of tags included,
\* is its pre-sanitizer text with every double quote doubled, the tags
\* sequence keeps its length and order, and numeric fields are unchanged.
SanitizerEscapesEveryText ==
    /\ TextFieldsEscaped
    /\ pc \in {"save_data", "save_to_google_sheets", "done"} =>
          \A r \in Rows(df) :
              LET before == tag_list(raw.rows[r.idx])
              IN r.cells["tags"] =
                    [na |-> FALSE,
                     items |-> [i \in 1..Len(before) |-> escape(before[i])]]

\* estimated_time contains the literal text 30+
has_literal_30plus(s) ==
    \E i \in 1..(Len(s) - 2) : s[i] = "3" /\ s[i + 1] = "0" /\ s[i + 2] = "+"

\* C10: calculate_scores uses hours_multiplier 30 and time_score 2 exactly
\* when estimated_time contains the literal text 30+, and 15 and 1 otherwise,
\* also for a record whose estimated_time is absent.
HighCommitmentMarkerIsLiteral ==
    /\ failed # "calculate_scores"
    /\ Scored => \A r \in Rows(df) :
          LET t == r.cells["estimated_time"]
          IN /\ time_multiplier(t) = 4 * (IF has_literal_30plus(t) THEN 30 ELSE 15)
             /\ time_scores(t) = IF has_literal_30plus(t) THEN 2 ELSE 1

====
